---- MODULE Spec2Model ----
(***************************************************************************)
(* Verification model of elasticutils:                                     *)
(*   - ElasticsearchClient.search_with_pit (elastic_client.py): the PIT +  *)
(*     search_after paginated scan, lazy (generator) and eager forms;      *)
(*   - ElasticsearchClient.create_point_in_time: the PIT request;          *)
(*   - ElasticQueryBuilder (query_builder.py): the fluent query builder,   *)
(*     with its predicates, clause groups, add_bool, size and aggs chain.  *)
(***************************************************************************)
EXTENDS Integers, Sequences, FiniteSets, TLC

\* ------------------------------------------------------------------ bounds
MaxDocs == 3        \* the snapshot holds 0..MaxDocs documents
MaxBatch == 2       \* batch_size ranges over 0..MaxBatch
MaxRecords == 3     \* max_records ranges over 0..MaxRecords
MaxEntries == 2     \* clause entries held by all builders together
MaxMsm == 1         \* minimum_should_match ranges over 1..MaxMsm
MaxAggs == 2        \* successful aggs calls per builder
MaxDepth == 3       \* nesting levels of a document that are written out

Min(a, b) == IF a < b THEN a ELSE b

\* ============================================================ the scanner
VARIABLES
    nDocs,                  \* size of the snapshot pinned by the PIT
    pc,                     \* per scan: idle / created / suspended / done / failed
    batch_size, max_records, initial_search_after, return_generator,
    total_fetched, search_after, hits, idx,
    results, last_search_after, returned,
    emitted,                \* history: the (record, cursor) pairs the generator yielded
    requests                \* history: the page requests sent, with the answer

scanVars == <<nDocs, pc, batch_size, max_records, initial_search_after,
              return_generator, total_fetched, search_after, hits, idx,
              results, last_search_after, returned, emitted, requests>>

ScanIds == {1, 2}

\* ============================================================ the builder
VARIABLES
    hasQuery,               \* per builder: "query" is a key of self.query
    qleaf,                  \* per builder: the leaf keys of self.query["query"]
    hasBool,                \* per builder: "bool" is a key of self.query["query"]
    groups,                 \* per builder: the lists of self.query["query"]["bool"]
    msm,                    \* per builder: bool["minimum_should_match"], {} when unset
    current_query_type,
    lastSel,                \* history: the last selector that returned normally
    log                     \* history: entries added, by the selector in force

builderVars == <<hasQuery, qleaf, hasBool, groups, msm, current_query_type,
                 lastSel, log>>

\* ---- the rest of the builder's document, and the PIT calls
VARIABLES
    hasSize,                \* per builder: "size" is a key of self.query
    aggsKey,                \* per builder: self.query["aggs"], <<>> when unset
    aggs_count,             \* per builder: self._aggs_count
    aggLog,                 \* history: the aggs calls that returned: the aggregation
                            \* made, and whether every argument had an allowed value
    pit                     \* history: how the last create_point_in_time call ended

auxVars == <<hasSize, aggsKey, aggs_count, aggLog, pit>>

vars == <<scanVars, builderVars, auxVars>>

\* Python values a cursor can take: None, or a list of sort values.
NoneVal == [none |-> TRUE]
List(v) == [list |-> v]
\* a key that is not in the request body
Absent == [absent |-> TRUE]

\* faulty variant: no cursor is ever put in the body
Truthy_Never(c) == FALSE

\* Python truthiness of a cursor, as tested by `if search_after:`
Truthy(c) == IF c = NoneVal THEN FALSE ELSE Len(c.list) > 0

\* ---- the engine: a snapshot sorted by timestamp, descending
Timestamp(i) == 10 * (MaxDocs + 1 - i)
Hit(i) == [source |-> i, sort |-> List(<<Timestamp(i)>>)]

\* documents strictly after a cursor in the sort order (timestamp desc)
After(c) == {i \in 1..nDocs : c = Absent \/ Timestamp(i) < c.list[1]}
FirstAfter(c) == nDocs + 1 - Cardinality(After(c))
Page(c, k) == [x \in 1..k |-> Hit(FirstAfter(c) + x - 1)]

ErrorStatuses == {404, 500}
\* answers the engine can give to a page request: an error, or the next
\* at most `size` documents (a non-empty page may be short)
Responses(body) ==
    LET rem == Cardinality(After(body.search_after))
        top == Min(body.size, rem)
        lens == IF top = 0 THEN {0} ELSE 1..top
    IN  {[status |-> 200, hits |-> Page(body.search_after, k)] : k \in lens}
        \cup {[status |-> st, hits |-> <<>>] : st \in ErrorStatuses}

\* ---- the generator of search_with_pit
LoopGuard(tf, M) == tf < M

\* faulty variant: the page size ignores the remaining budget
PageSize_Uncapped(B, M, tf) == B
PageSize(B, M, tf) == Min(B, M - tf)

\* the pit_id and query arguments of scan s: both scans use one PIT, each
\* has its own query; the code passes them on without looking into them
pit_id(s) == "pit"
query(s) == [match_all |-> s]

RequestBody(s, tf, sa) ==
    [query |-> query(s),
     pit |-> [id |-> pit_id(s), keep_alive |-> "1m"],
     size |-> PageSize(batch_size[s], max_records[s], tf),
     search_after |-> IF Truthy(sa) THEN sa ELSE Absent]

\* faulty variant: the status is never checked
raise_for_status_Never(status) == FALSE

\* requests' Response.raise_for_status: raises on 4xx and 5xx (the
\* print(response.json()) before it can only raise as well)
raise_for_status(status) == status >= 400 /\ status < 600

\* faulty variant: a short page ends the scan
BreakOnHits_Short(h, size) == Len(h) = 0 \/ Len(h) < size

\* `if not hits: break`
BreakOnHits(h, size) == Len(h) = 0

\* the pair yielded for the i-th hit of the page: (hit["_source"],
\* hits[-1]["sort"]); own is history, the hit's own sort key
YieldPair(h, i) == [rec |-> h[i].source, cur |-> h[Len(h)].sort, own |-> h[i].sort]

\* faulty variant: the cursor advances to the first hit of the page
NextSearchAfter_First(h) == h[1].sort
NextSearchAfter(h) == h[Len(h)].sort

\* body of the eager loop: results.append(item); last_search_after = search_after
EagerResults(res, item) == Append(res, item.rec)
\* faulty variant: the eager loop never updates its cursor
EagerCursor_Stale(last, item) == last
EagerCursor(last, item) == item.cur

CursorInputs == {NoneVal, List(<<>>)} \cup {List(<<Timestamp(i)>>) : i \in 1..nDocs}

InitScan ==
    /\ nDocs \in 0..MaxDocs
    /\ pc = [s \in ScanIds |-> "idle"]
    /\ batch_size = [s \in ScanIds |-> 0]
    /\ max_records = [s \in ScanIds |-> 0]
    /\ initial_search_after = [s \in ScanIds |-> NoneVal]
    /\ return_generator = [s \in ScanIds |-> FALSE]
    /\ total_fetched = [s \in ScanIds |-> 0]
    /\ search_after = [s \in ScanIds |-> NoneVal]
    /\ hits = [s \in ScanIds |-> <<>>]
    /\ idx = [s \in ScanIds |-> 0]
    /\ results = [s \in ScanIds |-> <<>>]
    /\ last_search_after = [s \in ScanIds |-> NoneVal]
    /\ returned = [s \in ScanIds |-> <<>>]
    /\ emitted = [s \in ScanIds |-> <<>>]
    /\ requests = [s \in ScanIds |-> <<>>]

\* the call itself: binds the arguments; the generator body has not run yet
search_with_pit(s) ==
    /\ pc[s] = "idle"
    /\ \E B \in 0..MaxBatch, M \in 0..MaxRecords, cur \in CursorInputs, rg \in BOOLEAN :
        /\ batch_size' = [batch_size EXCEPT ![s] = B]
        /\ max_records' = [max_records EXCEPT ![s] = M]
        /\ initial_search_after' = [initial_search_after EXCEPT ![s] = cur]
        /\ return_generator' = [return_generator EXCEPT ![s] = rg]
        /\ last_search_after' = [last_search_after EXCEPT ![s] = cur]
    /\ pc' = [pc EXCEPT ![s] = "created"]
    /\ UNCHANGED <<nDocs, total_fetched, search_after, hits, idx, results,
                   returned, emitted, requests>>
    /\ UNCHANGED <<builderVars, auxVars>>

\* the generator yielded `item`: the lazy caller receives it, the eager
\* loop appends the record and keeps the cursor
Consume(s, item) ==
    /\ emitted' = [emitted EXCEPT ![s] = Append(@, item)]
    /\ IF return_generator[s]
       THEN UNCHANGED <<results, last_search_after>>
       ELSE /\ results' = [results EXCEPT ![s] = EagerResults(@, item)]
            /\ last_search_after' = [last_search_after EXCEPT ![s] = EagerCursor(@, item)]
    /\ UNCHANGED returned

\* the generator returned: the lazy sequence ends, the eager call returns
Finish(s) ==
    /\ pc' = [pc EXCEPT ![s] = "done"]
    /\ returned' = IF return_generator[s] THEN returned
                   ELSE [returned EXCEPT ![s] = <<results[s], last_search_after[s]>>]
    /\ UNCHANGED <<emitted, results, last_search_after>>

\* one pass of `while total_fetched < max_records` up to its first yield,
\* entered with the local values tf and sa
FetchLoop(s, tf, sa) ==
    /\ total_fetched' = [total_fetched EXCEPT ![s] = tf]
    /\ search_after' = [search_after EXCEPT ![s] = sa]
    /\ IF ~LoopGuard(tf, max_records[s])
       THEN /\ Finish(s)
            /\ UNCHANGED <<hits, idx, requests>>
       ELSE LET body == RequestBody(s, tf, sa) IN
            \E resp \in Responses(body) :
              /\ requests' = [requests EXCEPT ![s] =
                     Append(@, [body |-> body, at |-> Len(emitted[s]),
                                status |-> resp.status, n |-> Len(resp.hits)])]
              /\ IF raise_for_status(resp.status)
                 THEN /\ pc' = [pc EXCEPT ![s] = "failed"]
                      /\ UNCHANGED <<hits, idx, emitted, results,
                                     last_search_after, returned>>
                 ELSE IF BreakOnHits(resp.hits, body.size)
                 THEN /\ Finish(s)
                      /\ UNCHANGED <<hits, idx>>
                 ELSE /\ pc' = [pc EXCEPT ![s] = "suspended"]
                      /\ hits' = [hits EXCEPT ![s] = resp.hits]
                      /\ idx' = [idx EXCEPT ![s] = 1]
                      /\ Consume(s, YieldPair(resp.hits, 1))

\* first next() on the generator
PullFirst(s) ==
    /\ pc[s] = "created"
    /\ FetchLoop(s, 0, initial_search_after[s])
    /\ UNCHANGED <<nDocs, batch_size, max_records, initial_search_after,
                   return_generator>>
    /\ UNCHANGED <<builderVars, auxVars>>

\* next() while hits of the current page remain
PullBuffered(s) ==
    /\ pc[s] = "suspended"
    /\ idx[s] < Len(hits[s])
    /\ idx' = [idx EXCEPT ![s] = @ + 1]
    /\ Consume(s, YieldPair(hits[s], idx[s] + 1))
    /\ UNCHANGED <<nDocs, pc, batch_size, max_records, initial_search_after,
                   return_generator, total_fetched, search_after, hits, requests>>
    /\ UNCHANGED <<builderVars, auxVars>>

\* faulty variant: the loop over the page ends one hit early
PageConsumed_Early(i, n) == i >= n - 1

\* `for hit in hits` is exhausted: the i-th of n hits was the last one
PageConsumed(i, n) == i = n

\* faulty variant: every generator works on the locals of the first one
GeneratorFrame_Shared(s) == 1

\* the frame holding a generator's locals: each call of generator() has
\* its own total_fetched and search_after
GeneratorFrame(s) == s

\* next() after the last hit of the page: update the locals, loop again
PullNextPage(s) ==
    /\ pc[s] = "suspended"
    /\ PageConsumed(idx[s], Len(hits[s]))
    /\ FetchLoop(s, total_fetched[GeneratorFrame(s)] + Len(hits[s]),
                 NextSearchAfter(hits[s]))
    /\ UNCHANGED <<nDocs, batch_size, max_records, initial_search_after,
                   return_generator>>
    /\ UNCHANGED <<builderVars, auxVars>>

\* ---- create_point_in_time
\* answers the engine can give to a PIT request: the snapshot is opened
\* (200), or the request is rejected (an unknown index is 404)
PitStatuses == {200} \cup ErrorStatuses

NoPitCall == [out |-> "none"]

\* how a call ends: ValueError without endpoint and index, else the
\* Response of __send_request is returned as it is, whatever its status
PitOutcome(endpoint, index, status) ==
    IF endpoint THEN [out |-> "returned", status |-> status]
    ELSE IF ~index THEN [out |-> "ValueError"]
    ELSE [out |-> "returned", status |-> status]

\* endpoint, index: the argument is given and truthy
create_point_in_time ==
    /\ \E endpoint \in BOOLEAN, index \in BOOLEAN, status \in PitStatuses :
          pit' = PitOutcome(endpoint, index, status)
    /\ UNCHANGED <<scanVars, builderVars, hasSize, aggsKey, aggs_count, aggLog>>

\* ============================================================ the builder
BuilderIds == {1, 2}

LeafKeys == {"match", "match_phrase", "term", "terms", "query_string", "range", "exists"}
Groups == {"should", "filter", "must", "must_not"}
\* current_query_type is None until a selector returns; None can be a dict key
GroupKeys == Groups \cup {"None"}
Bounds == {"gte", "lte"}
NoBody == [absent |-> TRUE]

\* the value stored under KEY by a leaf call without a boolean container;
\* f is the caller's field, v its value, a the bounds given to range
BareBody(KEY, a) ==
    CASE KEY = "term" -> [f |-> [value |-> "v"]]
      [] KEY = "query_string" -> [default_field |-> "f", query |-> "v"]
      [] KEY = "range" -> [f |-> [given |-> a]]
      [] KEY = "exists" -> [field |-> "f"]
      [] OTHER -> [f |-> [is |-> "v"]]

\* the value appended under KEY by a leaf call inside a boolean container
BoolBody(KEY, a) ==
    CASE KEY = "query_string" -> [default_field |-> "f", query |-> "v"]
      [] KEY = "range" -> [f |-> [given |-> a]]
      [] KEY = "exists" -> [field |-> "f"]
      [] OTHER -> [f |-> [is |-> "v"]]

LeafEntry(KEY, a) == [key |-> KEY, body |-> BoolBody(KEY, a)]
\* the entry add_bool appends: the sub-builder's own query["query"] object
RefEntry(x) == [ref |-> x]

\* len(self.query["query"].keys())
NumKeys(b) ==
    Cardinality({k \in LeafKeys : qleaf[b][k] # NoBody}) + (IF hasBool[b] THEN 1 ELSE 0)

\* faulty variant: the check for an existing key is missing
HasOtherKey_Never(n) == FALSE

\* `if len(self.query["query"].keys()) > 0: raise`
HasOtherKey(n) == n > 0

\* faulty variant: the entry is put in front
AppendEntry_Front(list, e) == <<e>> \o list

\* setdefault(self.current_query_type, []).append(entry)
AppendEntry(list, e) == Append(list, e)

\* faulty variant: a selector leaves the pointer as it was
SelectGroup_Keep(cur, g) == cur

\* the current group after a selector returned
SelectGroup(cur, g) == g

GroupLen(b) ==
    Len(groups[b]["should"]) + Len(groups[b]["filter"]) + Len(groups[b]["must"])
    + Len(groups[b]["must_not"]) + Len(groups[b]["None"])
TotalEntries == GroupLen(1) + GroupLen(2)

InitBuilder ==
    /\ hasQuery = [b \in BuilderIds |-> TRUE]
    /\ qleaf = [b \in BuilderIds |-> [k \in LeafKeys |-> NoBody]]
    /\ hasBool = [b \in BuilderIds |-> FALSE]
    /\ groups = [b \in BuilderIds |-> [g \in GroupKeys |-> <<>>]]
    /\ msm = [b \in BuilderIds |-> {}]
    /\ current_query_type = [b \in BuilderIds |-> "None"]
    /\ lastSel = [b \in BuilderIds |-> "None"]
    /\ log = [b \in BuilderIds |-> [g \in GroupKeys |-> <<>>]]

InitAux ==
    /\ hasSize = [b \in BuilderIds |-> FALSE]
    /\ aggsKey = [b \in BuilderIds |-> <<>>]
    /\ aggs_count = [b \in BuilderIds |-> 0]
    /\ aggLog = [b \in BuilderIds |-> <<>>]
    /\ pit = NoPitCall

\* ---- what a call does in the current state: "ok", or the error it raises.
\* QueryBuilderException is named by its message: StructuralConflict
\* ("Cannot use ... query"), MissingBound, CannotNest ("Cannot add bool
\* query"), MissingQuery ("sub_query must contain query"), MissingBool
\* ("sub_query must contain bool query"), NotApplicable; KeyError is
\* Python's, raised by self.query["query"] once the key was popped.
LeafOutcome(b, KEY, a) ==
    IF KEY = "range" /\ a = {} THEN "MissingBound"
    ELSE IF ~hasQuery[b] THEN "KeyError"
    ELSE IF hasBool[b] THEN "ok"
    ELSE IF HasOtherKey(NumKeys(b)) THEN "StructuralConflict"
    ELSE "ok"

\* faulty variant: a selector never looks for a bare predicate
SelectorOutcome_Lenient(b, g) == IF ~hasQuery[b] THEN "KeyError" ELSE "ok"

SelectorOutcome(b, g) ==
    IF ~hasQuery[b] THEN "KeyError"
    ELSE IF ~hasBool[b] /\ HasOtherKey(NumKeys(b)) THEN "StructuralConflict"
    ELSE "ok"

BuildOutcome(b) == IF ~hasQuery[b] THEN "KeyError" ELSE "ok"

\* `if not self.query["query"]: self.query.pop("query")`
PopsQuery(b) == NumKeys(b) = 0

\* self.query has a key besides "query"
HasSettings(b) == hasSize[b] \/ Len(aggsKey[b]) > 0

\* the receiver's part of add_bool: `if not self.__is_using_multi_conditional_query()`
ReceiverOutcome(b) ==
    IF ~hasQuery[b] THEN "KeyError"
    ELSE IF ~hasBool[b] THEN "CannotNest"
    ELSE "ok"

\* after query = sub_query.build(): `if not query` sees an empty dict only
\* when the sub-builder has no other setting; query["query"] raises KeyError
\* when build() dropped the key
AddBoolOutcome(b, x) ==
    IF ReceiverOutcome(b) # "ok" THEN ReceiverOutcome(b)
    ELSE IF BuildOutcome(x) # "ok" THEN BuildOutcome(x)
    ELSE IF PopsQuery(x) /\ ~HasSettings(x) THEN "MissingQuery"
    ELSE IF PopsQuery(x) THEN "KeyError"
    ELSE IF ~hasBool[x] THEN "MissingBool"
    ELSE "ok"

MsmOutcome(b) ==
    IF ~hasQuery[b] THEN "KeyError"
    ELSE IF ~hasBool[b] THEN "NotApplicable"
    ELSE "ok"

\* append entry e to the current group of b
AppendToCurrent(b, e) ==
    /\ TotalEntries < MaxEntries
    /\ groups' = [groups EXCEPT ![b][current_query_type[b]] = AppendEntry(@, e)]
    /\ log' = [log EXCEPT ![b][lastSel[b]] = Append(@, e)]

\* match, match_phrase, term, terms, query_string, range, exists
LeafCall(b, KEY, a) ==
    /\ UNCHANGED <<scanVars, auxVars>>
    /\ IF LeafOutcome(b, KEY, a) # "ok"
       THEN UNCHANGED builderVars
       ELSE IF hasBool[b]
       THEN /\ AppendToCurrent(b, LeafEntry(KEY, a))
            /\ UNCHANGED <<hasQuery, qleaf, hasBool, msm, current_query_type, lastSel>>
       ELSE /\ qleaf' = [qleaf EXCEPT ![b][KEY] = BareBody(KEY, a)]
            /\ UNCHANGED <<hasQuery, hasBool, groups, msm, current_query_type,
                           lastSel, log>>

match(b) == LeafCall(b, "match", {})
match_phrase(b) == LeafCall(b, "match_phrase", {})
term(b) == LeafCall(b, "term", {})
terms(b) == LeafCall(b, "terms", {})
query_string(b) == LeafCall(b, "query_string", {})
range(b) == \E a \in SUBSET Bounds : LeafCall(b, "range", a)
exists(b) == LeafCall(b, "exists", {})

\* should, filter, must, must_not: __setup_multi_conditional_query, then
\* the assignment of current_query_type
Selector(b, g) ==
    /\ UNCHANGED <<scanVars, auxVars>>
    /\ IF SelectorOutcome(b, g) # "ok"
       THEN UNCHANGED builderVars
       ELSE /\ hasBool' = [hasBool EXCEPT ![b] = TRUE]
            /\ current_query_type' =
                  [current_query_type EXCEPT ![b] = SelectGroup(@, g)]
            /\ lastSel' = [lastSel EXCEPT ![b] = g]
            /\ UNCHANGED <<hasQuery, qleaf, groups, msm, log>>

should(b) == Selector(b, "should")
filter(b) == Selector(b, "filter")
must(b) == Selector(b, "must")
must_not(b) == Selector(b, "must_not")

build(b) ==
    /\ UNCHANGED <<scanVars, auxVars>>
    /\ IF BuildOutcome(b) # "ok"
       THEN UNCHANGED builderVars
       ELSE /\ hasQuery' = [hasQuery EXCEPT ![b] = ~PopsQuery(b)]
            /\ UNCHANGED <<qleaf, hasBool, groups, msm, current_query_type,
                           lastSel, log>>

\* add_bool(sub_query) with sub_query the builder x; sub_query.build() runs
\* inside and returns x's own self.query
add_bool(b, x) ==
    /\ UNCHANGED <<scanVars, auxVars>>
    /\ IF ReceiverOutcome(b) # "ok" \/ BuildOutcome(x) # "ok"
       THEN UNCHANGED builderVars
       ELSE \* sub_query.build() has run
            /\ hasQuery' = [hasQuery EXCEPT ![x] = ~PopsQuery(x)]
            /\ IF AddBoolOutcome(b, x) # "ok"
               THEN UNCHANGED <<groups, log>>
               ELSE AppendToCurrent(b, RefEntry(x))
            /\ UNCHANGED <<qleaf, hasBool, msm, current_query_type, lastSel>>

minimum_should_match(b) ==
    /\ UNCHANGED <<scanVars, auxVars>>
    /\ IF MsmOutcome(b) # "ok"
       THEN UNCHANGED builderVars
       ELSE \E n \in 1..MaxMsm :
            /\ msm' = [msm EXCEPT ![b] = {n}]
            /\ UNCHANGED <<hasQuery, qleaf, hasBool, groups, current_query_type,
                           lastSel, log>>

query_size(b) ==
    /\ hasSize' = [hasSize EXCEPT ![b] = TRUE]
    /\ UNCHANGED <<scanVars, builderVars, aggsKey, aggs_count, aggLog, pit>>

\* ---- aggs
AggTypes == {"terms", "date_histogram", "top_hits", "cardinality"}
SortValues == {"desc", "asc"}
SortOnValues == {"_count", "_key"}
\* "bad" stands for any value outside the allowed ones
AggTypeInputs == AggTypes \cup {"bad"}
SortInputs == SortValues \cup {"bad"}
SortOnInputs == SortOnValues \cup {"bad"}

\* __aggs_by_type: get() checks a key only when the branch taken reads it;
\* the key of the order dict (sort_on) is evaluated before its value (sort)
AggsOutcome(ty, so, on) ==
    IF ty \notin AggTypes THEN "InvalidParameter"
    ELSE IF ty # "terms" THEN "ok"
    ELSE IF on \notin SortOnValues THEN "InvalidParameter"
    ELSE IF so \notin SortValues THEN "InvalidParameter"
    ELSE "ok"

\* the dict __aggs_by_type returns (field, size and fixed_interval are the caller's)
AggsByType(ty, so, on) ==
    IF ty = "terms" THEN [kind |-> ty, order |-> <<on, so>>]
    ELSE [kind |-> ty, order |-> <<>>]

\* the documented precondition of aggs: every argument has an allowed value
AllAllowed(ty, so, on) ==
    ty \in AggTypes /\ so \in SortValues /\ on \in SortOnValues

\* a level of the chain: the "data" dict, made of the aggregation and of
\* its own "aggs" key, <<>> when unset
AggNode(agg) == [data |-> agg, aggs |-> <<>>]

\* faulty variant: the walk stops one level above the deepest one
WalkSteps_Short(n) == n - 1

\* `for _ in range(self._aggs_count)`
WalkSteps(n) == n

RECURSIVE SetAggs(_, _, _)
\* parent = self.query; n times parent = parent["aggs"]["data"]; then
\* parent["aggs"] = agg. key is the "aggs" key of the dict the walk is at.
SetAggs(key, n, agg) ==
    IF n <= 0 THEN <<AggNode(agg)>>
    ELSE <<[data |-> key[1].data, aggs |-> SetAggs(key[1].aggs, n - 1, agg)]>>

\* aggs(field, *args, **kwargs); a positional sort is checked as the keyword is
aggs(b) ==
    /\ UNCHANGED <<scanVars, builderVars, hasSize, pit>>
    /\ \E ty \in AggTypeInputs, so \in SortInputs, on \in SortOnInputs :
         IF AggsOutcome(ty, so, on) # "ok"
         THEN UNCHANGED <<aggsKey, aggs_count, aggLog>>
         ELSE /\ aggs_count[b] < MaxAggs
              /\ aggsKey' = [aggsKey EXCEPT ![b] =
                     IF aggs_count[b] = 0 THEN <<AggNode(AggsByType(ty, so, on))>>
                     ELSE SetAggs(@, WalkSteps(aggs_count[b]), AggsByType(ty, so, on))]
              /\ aggs_count' = [aggs_count EXCEPT ![b] = @ + 1]
              /\ aggLog' = [aggLog EXCEPT ![b] =
                     Append(@, [agg |-> AggsByType(ty, so, on),
                                valid |-> AllAllowed(ty, so, on)])]

\* ========================================================= specifications
Init == InitScan /\ InitBuilder /\ InitAux

\* one scan and its consumer
ScanNext ==
    \/ search_with_pit(1)
    \/ PullFirst(1)
    \/ PullBuffered(1)
    \/ PullNextPage(1)

ScanSpec == Init /\ [][ScanNext]_vars

\* two scans over the same snapshot, pulled in any interleaving
TwoScanNext ==
    \/ \E s \in ScanIds : search_with_pit(s)
    \/ \E s \in ScanIds : PullFirst(s)
    \/ \E s \in ScanIds : PullBuffered(s)
    \/ \E s \in ScanIds : PullNextPage(s)

TwoScanSpec == Init /\ [][TwoScanNext]_vars

BuilderNext ==
    \/ \E b \in BuilderIds : match(b)
    \/ \E b \in BuilderIds : match_phrase(b)
    \/ \E b \in BuilderIds : term(b)
    \/ \E b \in BuilderIds : terms(b)
    \/ \E b \in BuilderIds : query_string(b)
    \/ \E b \in BuilderIds : range(b)
    \/ \E b \in BuilderIds : exists(b)
    \/ \E b \in BuilderIds : should(b)
    \/ \E b \in BuilderIds : filter(b)
    \/ \E b \in BuilderIds : must(b)
    \/ \E b \in BuilderIds : must_not(b)
    \/ \E b \in BuilderIds : build(b)
    \/ \E b \in BuilderIds, x \in BuilderIds : add_bool(b, x)
    \/ \E b \in BuilderIds : minimum_should_match(b)

BuilderInit == Init /\ nDocs = 0

\* two builders, each of which can be passed to add_bool of either
BuilderSpec == BuilderInit /\ [][BuilderNext]_vars

\* one builder, called in any order
SoloBuilderNext ==
    \/ match(1)
    \/ match_phrase(1)
    \/ term(1)
    \/ terms(1)
    \/ query_string(1)
    \/ range(1)
    \/ exists(1)
    \/ should(1)
    \/ filter(1)
    \/ must(1)
    \/ must_not(1)
    \/ build(1)
    \/ add_bool(1, 1)
    \/ minimum_should_match(1)

SoloBuilderSpec == BuilderInit /\ [][SoloBuilderNext]_vars

\* two builders nested into each other, with term and range as the leaf
\* calls and with the size setting
NestNext ==
    \/ \E b \in BuilderIds : term(b)
    \/ \E b \in BuilderIds : range(b)
    \/ \E b \in BuilderIds : should(b)
    \/ \E b \in BuilderIds : filter(b)
    \/ \E b \in BuilderIds : must(b)
    \/ \E b \in BuilderIds : must_not(b)
    \/ \E b \in BuilderIds : build(b)
    \/ \E b \in BuilderIds, x \in BuilderIds : add_bool(b, x)
    \/ \E b \in BuilderIds : minimum_should_match(b)
    \/ \E b \in BuilderIds : query_size(b)

NestSpec == BuilderInit /\ [][NestNext]_vars

\* one builder with aggregations, among other calls
AggsNext ==
    \/ aggs(1)
    \/ query_size(1)
    \/ match(1)
    \/ must(1)
    \/ should(1)
    \/ minimum_should_match(1)
    \/ build(1)

AggsSpec == BuilderInit /\ [][AggsNext]_vars

\* PIT requests, and one scan
PitNext ==
    \/ create_point_in_time
    \/ ScanNext

PitSpec == Init /\ [][PitNext]_vars

\* ------------------------------------------------- properties of the scan
Recs(s) == [i \in 1..Len(emitted[s]) |-> emitted[s][i].rec]
\* the cursor a scan starts from, as the engine sees it
SentCursor(c) == IF Truthy(c) THEN c ELSE Absent
\* the first m documents of the snapshot after cursor c, in sort order
FirstDocs(c, m) ==
    [x \in 1..Min(m, Cardinality(After(c))) |-> FirstAfter(c) + x - 1]
LastRequest(s) == requests[s][Len(requests[s])]

\* C1 - scan completeness: with batch_size >= 1 and no initial cursor a scan
\* emits, in sort order and each once, a prefix of the snapshot of at most
\* min(N, max_records) documents, sends at most min(N, max_records) + 1 page
\* requests, and when it ends normally it has emitted exactly the first
\* min(N, max_records) documents.
C1_ScanCompleteness ==
    \A s \in ScanIds :
        (pc[s] # "idle" /\ batch_size[s] >= 1 /\ initial_search_after[s] = NoneVal)
        => /\ Len(requests[s]) <= Min(nDocs, max_records[s]) + 1
           /\ Recs(s) = FirstDocs(Absent, Len(emitted[s]))
           /\ Len(emitted[s]) <= Min(nDocs, max_records[s])
           /\ pc[s] = "done" => Recs(s) = FirstDocs(Absent, max_records[s])

C1_Witness ==
    \E s \in ScanIds :
        /\ pc[s] = "done" /\ batch_size[s] = 2 /\ initial_search_after[s] = NoneVal
        /\ nDocs = 3 /\ max_records[s] = 3
        /\ Len(requests[s]) >= 3
        /\ Recs(s) = <<1, 2, 3>>

\* C2 - resumability: when scan t has emitted K records and scan s, started
\* from the cursor returned with the K-th record, has ended normally, the K
\* records of t followed by the records of s are the sequence one uncut scan
\* from t's start produces.
C2_Resumability ==
    \A s \in ScanIds : \A t \in ScanIds \ {s} :
        (/\ Len(emitted[t]) >= 1
         /\ pc[s] = "done" /\ batch_size[s] >= 1
         /\ initial_search_after[s] = emitted[t][Len(emitted[t])].cur)
        => Recs(t) \o Recs(s)
             = FirstDocs(SentCursor(initial_search_after[t]),
                         Len(emitted[t]) + max_records[s])

\* C3 - every emitted pair carries the record's own sort key as its cursor.
C3_OwnSortKey ==
    \A s \in ScanIds : \A i \in 1..Len(emitted[s]) :
        emitted[s][i].cur = emitted[s][i].own

\* C4 - cap: never more than max_records records are emitted; every page
\* request has size min(batch_size, max_records - emitted so far), at least 1
\* when batch_size >= 1, and is sent only while emitted < max_records.
C4_Cap ==
    \A s \in ScanIds :
        /\ Len(emitted[s]) <= max_records[s]
        /\ \A j \in 1..Len(requests[s]) :
             LET r == requests[s][j] IN
             /\ r.at < max_records[s]
             /\ r.body.size = Min(batch_size[s], max_records[s] - r.at)
             /\ batch_size[s] >= 1 => r.body.size >= 1

C4_Witness ==
    \E s \in ScanIds :
        /\ batch_size[s] = 2 /\ max_records[s] = 3
        /\ Len(requests[s]) = 2
        /\ requests[s][2].body.size = 1 /\ requests[s][2].at = 2
        /\ Len(emitted[s]) = 3 /\ pc[s] = "suspended"

\* C5 - end condition: a scan that ended normally with fewer than
\* max_records records ended on an empty page; no scan ends right after a
\* non-empty short page; and every hit of a page is emitted before the next
\* page request is sent.
C5_EndCondition ==
    \A s \in ScanIds :
        /\ (pc[s] = "done" /\ Len(emitted[s]) < max_records[s])
           => /\ Len(requests[s]) >= 1
              /\ LastRequest(s).n = 0
        /\ (pc[s] = "done" /\ Len(requests[s]) >= 1)
           => ~(LastRequest(s).n > 0 /\ LastRequest(s).n < LastRequest(s).body.size)
        /\ \A j \in 1..(Len(requests[s]) - 1) :
             requests[s][j + 1].at = requests[s][j].at + requests[s][j].n

C5_Witness ==
    \E s \in ScanIds :
        /\ pc[s] = "done" /\ Len(emitted[s]) < max_records[s]
        /\ Len(requests[s]) = 3
        /\ requests[s][2].n = 1 /\ requests[s][2].body.size = 2
        /\ requests[s][3].n = 0

C7_EagerLazy ==
    \A s \in ScanIds :
        (pc[s] # "idle" /\ ~return_generator[s])
        => IF pc[s] = "done"
           THEN returned[s] =
                  <<Recs(s),
                    IF Len(emitted[s]) = 0 THEN initial_search_after[s]
                    ELSE emitted[s][Len(emitted[s])].cur>>
           ELSE returned[s] = <<>>

C7_Witness ==
    \E s \in ScanIds :
        /\ pc[s] = "done" /\ ~return_generator[s]
        /\ Len(emitted[s]) >= 2
        /\ Len(requests[s]) >= 2
        /\ returned[s][1] = Recs(s)

\* ---------------------------------------------- properties of the builder
\* the arguments a leaf call can be given: the bounds, for range
ArgsOf(KEY) == IF KEY = "range" THEN SUBSET Bounds ELSE {{}}

\* C8 - build() is idempotent: in every builder state a build() call
\* succeeds, whatever calls (build() included) were made before.
C8_BuildIdempotent ==
    \A b \in BuilderIds : BuildOutcome(b) = "ok"

\* C9 - on a builder without a boolean container whose query was never
\* dropped, at most one leaf predicate is ever set: every leaf call (range
\* with a bound included) succeeds while none is set and fails with
\* StructuralConflict once one is.
C9_SecondLeafConflicts ==
    \A b \in BuilderIds :
        (hasQuery[b] /\ ~hasBool[b])
        => /\ NumKeys(b) <= 1
           /\ \A KEY \in LeafKeys : \A a \in ArgsOf(KEY) :
                ~(KEY = "range" /\ a = {})
                => LeafOutcome(b, KEY, a)
                     = IF NumKeys(b) = 0 THEN "ok" ELSE "StructuralConflict"

C9_Witness ==
    \E b \in BuilderIds :
        /\ hasQuery[b] /\ ~hasBool[b] /\ lastSel[b] = "None"
        /\ qleaf[b]["range"] = BareBody("range", {"gte"})
        /\ NumKeys(b) = 1
        /\ LeafOutcome(b, "match", {}) = "StructuralConflict"
        /\ LeafOutcome(b, "range", {"lte"}) = "StructuralConflict"

\* C10 - clause groups accumulate in call order: each of the four groups of
\* a boolean container is the sequence of the entries (leaf predicates and
\* nested blocks) added while its selector was the last one called, in call
\* order, however the selector calls were interleaved.
C10_GroupsInCallOrder ==
    \A b \in BuilderIds :
        hasBool[b] => \A g \in Groups : groups[b][g] = log[b][g]

C10_Witness ==
    \E b \in BuilderIds : \E x \in BuilderIds :
        /\ hasBool[b]
        /\ groups[b]["must"] = <<LeafEntry("term", {}), RefEntry(x)>>
        /\ groups[b]["should"] = <<>>
        /\ current_query_type[b] = "should"

\* the leaf keys set at the top of the query node
LeafKeysSet(b) == {k \in LeafKeys : qleaf[b][k] # NoBody}
\* the mode of a builder: none, bare (one leaf predicate) or bool
Mode(b) ==
    IF hasBool[b] THEN "bool"
    ELSE IF LeafKeysSet(b) # {} THEN "bare"
    ELSE "none"

\* C11 - exclusivity: the query node of a builder always holds nothing, one
\* leaf predicate alone, or one boolean container alone; every selector call
\* on a builder holding a bare predicate fails with StructuralConflict; and
\* a builder in bare or boolean mode stays in that mode at every step.
C11_Exclusivity ==
    /\ [](\A b \in BuilderIds :
            /\ Cardinality(LeafKeysSet(b)) <= 1
            /\ ~(hasBool[b] /\ LeafKeysSet(b) # {})
            /\ Mode(b) = "bare"
               => \A g \in Groups : SelectorOutcome(b, g) = "StructuralConflict")
    /\ [][\A b \in BuilderIds : Mode(b) # "none" => Mode(b)' = Mode(b)]_vars

C11_Witness ==
    /\ Mode(1) = "bare" /\ hasQuery[1]
    /\ qleaf[1]["term"] = BareBody("term", {})
    /\ \A g \in Groups : SelectorOutcome(1, g) = "StructuralConflict"
    /\ LeafOutcome(1, "match", {}) = "StructuralConflict"

\* the builders whose own query node is an entry of a group of b
Nested(b) ==
    {x \in BuilderIds :
        \E g \in GroupKeys : \E i \in 1..Len(groups[b][g]) :
            groups[b][g][i] = RefEntry(x)}

\* C12 - add_bool error contract, for builders whose query was never
\* dropped: a receiver without a boolean container makes the call fail with
\* CannotNest; a receiver with one and a sub-builder without one (no
\* predicate at all, with or without other settings, or a bare predicate)
\* make it fail with the builder error about the sub-query (either message);
\* with both in boolean mode the call succeeds; and only sub-builders in
\* boolean mode are ever entries of a group.
C12_AddBoolContract ==
    \A b \in BuilderIds :
        /\ \A x \in Nested(b) : hasBool[x]
        /\ \A x \in BuilderIds :
             (hasQuery[b] /\ hasQuery[x])
             => AddBoolOutcome(b, x) \in
                  (IF ~hasBool[b] THEN {"CannotNest"}
                   ELSE IF ~hasBool[x] THEN {"MissingBool", "MissingQuery"}
                   ELSE {"ok"})

\* the boolean container of b has a should group: the "should" list
\* exists, or should is the group the next predicate goes to
HasShould(b) ==
    hasBool[b] /\ (Len(groups[b]["should"]) > 0 \/ current_query_type[b] = "should")

\* C13 - on a builder whose query was never dropped, minimum_should_match
\* succeeds when the builder holds a boolean container with a should group
\* and fails with NotApplicable in every other state; a document never
\* holds minimum_should_match without a should group.
C13_MsmNeedsShould ==
    \A b \in BuilderIds :
        hasQuery[b]
        => /\ MsmOutcome(b) = (IF HasShould(b) THEN "ok" ELSE "NotApplicable")
           /\ msm[b] # {} => HasShould(b)

RECURSIVE Chain(_)
\* the aggregations met on the path aggs.data.aggs.data... from an "aggs"
\* key down; a dict has one "aggs" key, so a level has at most one child
Chain(key) ==
    IF key = <<>> THEN <<>>
    ELSE <<key[1].data>> \o Chain(key[1].aggs)

\* C14 - aggregation chain: the document of a builder holds one chain
\* aggs.data.aggs.data... whose levels are, in order, the aggregations of
\* the aggs calls that returned, whatever failing aggs calls and other
\* calls came between; _aggs_count is the number of those calls.
C14_AggsChain ==
    \A b \in BuilderIds :
        /\ Chain(aggsKey[b]) = [i \in 1..Len(aggLog[b]) |-> aggLog[b][i].agg]
        /\ aggs_count[b] = Len(aggLog[b])

C14_Witness ==
    /\ aggs_count[1] = 2
    /\ Chain(aggsKey[1]) = <<AggsByType("terms", "asc", "_key"),
                              AggsByType("cardinality", "desc", "_count")>>
    /\ aggsKey[1][1].aggs[1].aggs = <<>>
    /\ hasSize[1] /\ hasBool[1] /\ msm[1] # {}

\* C15 - aggs parameter validation: no aggs call with a sort, sort_on or
\* aggs_type outside the allowed values returns normally and adds a level,
\* whatever its other arguments are: every call that returned had allowed
\* values for all three.
C15_InvalidRejected ==
    \A b \in BuilderIds : \A i \in 1..Len(aggLog[b]) : aggLog[b][i].valid

RECURSIVE Delivered(_, _)
\* the number of hits in the answers to the first j page requests of scan s
Delivered(s, j) == IF j = 0 THEN 0 ELSE Delivered(s, j - 1) + requests[s][j].n

\* C16 - no prefetching, in the lazy form: no page request is sent before
\* the first pull; a page request is sent only when every hit of all the
\* pages before it has been pulled; the records pulled so far reach into the
\* last page requested, so at most one page is ahead of the consumer; and a
\* step sends at most one request, in a pull that hands a record to the
\* consumer or ends the scan.
C16_NoPrefetch ==
    /\ [](\A s \in ScanIds :
            return_generator[s]
            => /\ pc[s] \in {"idle", "created"} => requests[s] = <<>>
               /\ \A j \in 1..Len(requests[s]) :
                    requests[s][j].at = Delivered(s, j - 1)
               /\ Len(requests[s]) >= 1
                  => /\ Len(emitted[s]) >= Delivered(s, Len(requests[s]) - 1)
                     /\ Len(emitted[s]) <= Delivered(s, Len(requests[s])))
    /\ [][\A s \in ScanIds :
            (return_generator[s] /\ requests'[s] # requests[s])
            => /\ Len(requests'[s]) = Len(requests[s]) + 1
               /\ \/ Len(emitted'[s]) = Len(emitted[s]) + 1
                  \/ pc'[s] \in {"done", "failed"}]_vars

C16_Witness ==
    /\ return_generator[1] /\ pc[1] = "suspended"
    /\ Len(requests[1]) = 2
    /\ requests[1][1].n = 2 /\ requests[1][2].at = 2 /\ requests[1][2].n = 1
    /\ Len(emitted[1]) = 3

\* the cursor of the m-th document after the start cursor c
CursorOfDoc(c, m) == Hit(FirstAfter(c) + m - 1).sort

\* C17 - scan isolation: whatever the interleaving of the pulls of two
\* lazy scans over one snapshot, the history of each is the one its own
\* arguments and its own answers give: the records are the documents after
\* its own start cursor, in order; page request j is sent when the hits of
\* its own earlier pages are all pulled, asks for min(batch_size,
\* max_records - own count) documents, and carries its own start cursor
\* (j = 1) or the sort key of the last document of its own previous page.
C17_ScanIsolation ==
    \A s \in ScanIds :
        (return_generator[s] /\ pc[s] # "idle")
        => LET c0 == SentCursor(initial_search_after[s]) IN
           /\ Recs(s) = FirstDocs(c0, Len(emitted[s]))
           /\ \A j \in 1..Len(requests[s]) :
                LET r == requests[s][j] IN
                /\ r.at = Delivered(s, j - 1)
                /\ r.body.size = Min(batch_size[s], max_records[s] - r.at)
                /\ r.body.search_after =
                      IF j = 1 THEN c0 ELSE CursorOfDoc(c0, r.at)

C17_Witness ==
    /\ return_generator[1] /\ return_generator[2]
    /\ pc[1] = "suspended" /\ pc[2] = "suspended"
    /\ initial_search_after[1] = NoneVal
    /\ initial_search_after[2] = List(<<Timestamp(1)>>)
    /\ batch_size[1] = 1 /\ batch_size[2] = 2
    /\ Len(requests[1]) = 2 /\ Len(emitted[1]) = 2
    /\ Len(requests[2]) = 1 /\ Len(emitted[2]) = 2
    /\ total_fetched[1] = 1 /\ total_fetched[2] = 0

RECURSIVE QueryNode(_, _)
\* the value of x's self.query["query"], written out down to d levels of
\* nesting: an entry made by add_bool is the nested builder's query node as
\* it is now
QueryNode(x, d) ==
    [leaf |-> qleaf[x],
     bool |-> IF ~hasBool[x] THEN Absent
              ELSE [msm |-> msm[x],
                    groups |->
                      [g \in GroupKeys |->
                        [i \in 1..Len(groups[x][g]) |->
                          LET e == groups[x][g][i] IN
                          IF e \notin {RefEntry(y) : y \in BuilderIds} THEN e
                          ELSE IF d = 0 THEN [cut |-> TRUE]
                          ELSE [nested |-> QueryNode(e.ref, d - 1)]]]]]

\* the document build() returns, by value
BuiltDoc(b) ==
    IF BuildOutcome(b) # "ok" THEN [raises |-> "KeyError"]
    ELSE [query |-> IF PopsQuery(b) THEN Absent ELSE QueryNode(b, MaxDepth),
          size |-> hasSize[b],
          aggs |-> Chain(aggsKey[b])]

\* the step is a call of a method of builder x
CallOn(x) ==
    \/ match(x) \/ match_phrase(x) \/ term(x) \/ terms(x) \/ query_string(x)
    \/ range(x) \/ exists(x)
    \/ should(x) \/ filter(x) \/ must(x) \/ must_not(x)
    \/ build(x) \/ minimum_should_match(x) \/ query_size(x) \/ aggs(x)
    \/ \E y \in BuilderIds : add_bool(x, y)

\* C18 - no aliasing through add_bool: once b.add_bool(x) has succeeded,
\* a call on x leaves the document b builds unchanged, and a call on b
\* leaves the document x builds unchanged.
C18_NoAliasing ==
    [][\A b \in BuilderIds : \A x \in Nested(b) \ {b} :
          /\ CallOn(x) => BuiltDoc(b)' = BuiltDoc(b)
          /\ CallOn(b) => BuiltDoc(x)' = BuiltDoc(x)]_vars

\* C19 - create_point_in_time returns normally only when the engine
\* opened a snapshot; a request the engine rejects makes the call fail.
C19_PitRejected ==
    pit.out = "returned" => pit.status = 200

RECURSIVE ReachIn(_, _)
\* the builders whose query node is met within k levels of nesting below
\* the query node of b
ReachIn(b, k) ==
    IF k = 0 THEN {}
    ELSE LET r == ReachIn(b, k - 1) IN
         Nested(b) \cup r \cup UNION {Nested(x) : x \in r}

\* C20 - always serializable: the query document of every builder is a
\* finite tree, no query node is met again below itself, also when a
\* builder was passed to its own add_bool or two builders to each other's.
C20_Serializable ==
    \A b \in BuilderIds : b \notin ReachIn(b, Cardinality(BuilderIds))

\* the parts of C21 that do not depend on the first cursor: every later
\* request carries the sort key of the last hit of the page before it, and
\* every request carries the scan's PIT id and query
LaterCursorsAndFixedParts(s) ==
    \A j \in 1..Len(requests[s]) :
        LET r == requests[s][j] IN
        /\ j > 1 => /\ requests[s][j - 1].n >= 1
                    /\ r.body.search_after = emitted[s][r.at].own
        /\ r.body.pit = [id |-> pit_id(s), keep_alive |-> "1m"]
        /\ r.body.query = query(s)

\* C21 as claimed - cursor protocol: the first page request carries
\* search_after exactly when an initial cursor was given (anything but
\* None), with that value; every later request carries the sort key of the
\* last hit of the page before it; every request carries the same PIT id
\* and the caller's query.
C21_AsClaimed ==
    \A s \in ScanIds :
        /\ LaterCursorsAndFixedParts(s)
        /\ Len(requests[s]) >= 1
           => requests[s][1].body.search_after =
                (IF initial_search_after[s] = NoneVal THEN Absent
                 ELSE initial_search_after[s])

\* C21 - cursor protocol: the first page request carries search_after
\* exactly when a non-empty initial cursor was given, with that value (None
\* and the empty list are both sent as no cursor); every later request
\* carries the sort key of the last hit of the page before it; every request
\* carries the same PIT id and the caller's query.
C21_CursorProtocol ==
    \A s \in ScanIds :
        /\ LaterCursorsAndFixedParts(s)
        /\ Len(requests[s]) >= 1
           => requests[s][1].body.search_after =
                (IF initial_search_after[s] \in {NoneVal, List(<<>>)} THEN Absent
                 ELSE initial_search_after[s])

C21_Witness ==
    /\ initial_search_after[1] = List(<<Timestamp(1)>>)
    /\ Len(requests[1]) = 2
    /\ requests[1][1].body.search_after = List(<<Timestamp(1)>>)
    /\ requests[1][1].n = 1
    /\ requests[1][2].body.search_after = List(<<Timestamp(2)>>)
    /\ requests[1][2].n = 1

\* the errors raised as QueryBuilderException
MisuseErrors ==
    {"StructuralConflict", "MissingBound", "CannotNest", "MissingQuery",
     "MissingBool", "NotApplicable", "InvalidParameter"}

\* the step is a call of a method of builder b that fails with a misuse error
FailedCall(b) ==
    \/ \E KEY \in LeafKeys : \E a \in ArgsOf(KEY) :
          LeafOutcome(b, KEY, a) \in MisuseErrors /\ LeafCall(b, KEY, a)
    \/ \E g \in Groups : SelectorOutcome(b, g) \in MisuseErrors /\ Selector(b, g)
    \/ \E x \in BuilderIds : AddBoolOutcome(b, x) \in MisuseErrors /\ add_bool(b, x)
    \/ MsmOutcome(b) \in MisuseErrors /\ minimum_should_match(b)
    \/ aggs(b) /\ UNCHANGED aggLog

\* the document, the current group and the aggregation depth of builder b
BuilderState(b) ==
    <<hasQuery[b], qleaf[b], hasBool[b], groups[b], msm[b],
      current_query_type[b], hasSize[b], aggsKey[b], aggs_count[b]>>

\* C22 - failed builder calls change nothing: a builder call that fails
\* with a misuse error leaves the document, the current group and the
\* aggregation depth of the receiver as they were, and a failing add_bool
\* leaves the sub-builder passed to it as it was too; so no builder changes
\* in such a step.
C22_FailedCallsChangeNothing ==
    [][\A b \in BuilderIds :
          FailedCall(b) => \A x \in BuilderIds : BuilderState(x)' = BuilderState(x)]_vars

\* the keys of self.query["query"]["bool"]: a group key exists once an
\* entry was appended under it
BoolKeys(b) ==
    {g \in GroupKeys : Len(groups[b][g]) > 0}
    \cup (IF msm[b] # {} THEN {"minimum_should_match"} ELSE {})

\* C23 - current-group invariant: when a builder has a boolean container,
\* its current group is one of must, should, filter, must_not, every key of
\* the container is one of these four or minimum_should_match, and nothing
\* is filed under the unset (None) group.
C23_CurrentGroup ==
    \A b \in BuilderIds :
        hasBool[b]
        => /\ current_query_type[b] \in Groups
           /\ BoolKeys(b) \subseteq Groups \cup {"minimum_should_match"}
           /\ groups[b]["None"] = <<>>

C23_Witness ==
    /\ hasBool[1] /\ current_query_type[1] = "must_not"
    /\ Len(groups[1]["should"]) = 1 /\ Len(groups[1]["must_not"]) = 1
    /\ BoolKeys(1) = {"should", "must_not", "minimum_should_match"}
====
